---- MODULE Spec2Model ----
(***************************************************************************)
(* A model of src/main.rs: the extraction of a set of crates, with their   *)
(* local dependencies, from the rust repository into a workspace of        *)
(* renamed crates.                                                         *)
(*                                                                         *)
(* Strings are sequences of bytes (the ASCII codes), so that starts_with,  *)
(* replacen, format! and the derived Ord of str are computed as the code   *)
(* computes them.  Paths are sequences of components, each a string.       *)
(***************************************************************************)
EXTENDS Naturals, Sequences, FiniteSets

VARIABLES
    pc,                  \* the position of the run
    metadata,            \* cargo_metadata's Metadata: the sequence of packages
    opt,                 \* Opt: crates, force, out
    source,              \* the files of the source tree the run reads: path -> content
    crates_to_copy,      \* main's crates_to_copy, as the sequence the BTreeSet iterates
    krate,               \* the LocalCrate of the current iteration of main's loop
    cargo_toml_content,  \* main's cargo_toml_content: the member lines pushed so far
    disk,                \* the files and directories under opt.out: path -> content
    io_log,              \* the paths read and written by the run, in order
    arg,                 \* the argument of the function under study
    ret                  \* its result

vars == <<pc, metadata, opt, source, crates_to_copy, krate, cargo_toml_content,
          disk, io_log, arg, ret>>

None == [t |-> "none"]

----------------------------------------------------------------------------
(* Strings *)

S_rustc_ == <<114, 117, 115, 116, 99, 95>>
S_rustfmt_ == <<114, 117, 115, 116, 102, 109, 116, 95>>
S_lib == <<108, 105, 98>>
S_a == <<97>>
S_b == <<98>>
S_c == <<99>>
S_x == <<120>>
S_src == <<115, 114, 99>>
S_session == <<115, 101, 115, 115, 105, 111, 110>>
S_rustc == <<114, 117, 115, 116, 99>>
S_lib_rs == <<108, 105, 98, 46, 114, 115>>
S_Cargo_toml == <<67, 97, 114, 103, 111, 46, 116, 111, 109, 108>>

\* str::starts_with
StartsWith(s, p) == Len(s) >= Len(p) /\ SubSeq(s, 1, Len(p)) = p

\* The byte offsets (from 1) at which pat occurs in s.
Matches(s, pat) ==
    {i \in 1..(Len(s) + 1 - Len(pat)) : SubSeq(s, i, i + Len(pat) - 1) = pat}

\* A mutant of Replacen1: str::replace, every occurrence of pat replaced.
RECURSIVE ReplaceAll(_, _, _)
ReplaceAll(s, pat, to) ==
    IF Len(s) < Len(pat) THEN s
    ELSE IF SubSeq(s, 1, Len(pat)) = pat
         THEN to \o ReplaceAll(SubSeq(s, Len(pat) + 1, Len(s)), pat, to)
         ELSE <<s[1]>> \o ReplaceAll(Tail(s), pat, to)

\* str::replacen(pat, to, 1): the first occurrence of pat replaced.
Replacen1(s, pat, to) ==
    IF Matches(s, pat) = {} THEN s
    ELSE LET i == CHOOSE j \in Matches(s, pat) : \A k \in Matches(s, pat) : j <= k
         IN SubSeq(s, 1, i - 1) \o to \o SubSeq(s, i + Len(pat), Len(s))

\* fn add_rustfmt_prefix
add_rustfmt_prefix(name) ==
    IF StartsWith(name, S_rustc_)
    THEN Replacen1(name, S_rustc_, S_rustfmt_)
    ELSE S_rustfmt_ \o name

----------------------------------------------------------------------------
(* Paths and the derived order of LocalCrate *)

\* Path::file_name: the final component.
file_name(path) == path[Len(path)]

\* Path::parent: the path without its final component.
parent(path) == SubSeq(path, 1, Len(path) - 1)

\* Path::join of one component.
join(path, component) == Append(path, component)

\* Path::strip_prefix, for a path that has the prefix.
strip_prefix(path, prefix) == SubSeq(path, Len(prefix) + 1, Len(path))

\* Ord of str: the lexicographic order of the bytes.
RECURSIVE StrLess(_, _)
StrLess(s, t) ==
    IF t = <<>> THEN FALSE
    ELSE IF s = <<>> THEN TRUE
    ELSE IF s[1] # t[1] THEN s[1] < t[1]
    ELSE StrLess(Tail(s), Tail(t))

\* Ord of Path: the lexicographic order of the components.
RECURSIVE PathLess(_, _)
PathLess(p, q) ==
    IF q = <<>> THEN FALSE
    ELSE IF p = <<>> THEN TRUE
    ELSE IF p[1] # q[1] THEN StrLess(p[1], q[1])
    ELSE PathLess(Tail(p), Tail(q))

\* A mutant of LocalCrateLess: the crates are ordered by their root directory alone.
LocalCrateLess_by_root(x, y) == PathLess(x.root_path, y.root_path)

\* #[derive(PartialOrd, Ord)] of LocalCrate: the fields compared in their order.
LocalCrateLess(x, y) ==
    IF x.name # y.name THEN StrLess(x.name, y.name)
    ELSE IF x.root_path # y.root_path THEN PathLess(x.root_path, y.root_path)
    ELSE IF x.lib_path # y.lib_path THEN PathLess(x.lib_path, y.lib_path)
    ELSE PathLess(x.toml_path, y.toml_path)

\* The sequence in which a BTreeSet of LocalCrate is iterated: ascending.
RECURSIVE BTreeSetIter(_)
BTreeSetIter(set) ==
    IF set = {} THEN <<>>
    ELSE LET least == CHOOSE x \in set : \A y \in set \ {x} : LocalCrateLess(x, y)
         IN <<least>> \o BTreeSetIter(set \ {least})

Range(seq) == {seq[i] : i \in DOMAIN seq}

----------------------------------------------------------------------------
(* The dependency closure *)

Panic == [t |-> "panic", v |-> {}]
Ok(v) == [t |-> "ok", v |-> v]
Registry == [t |-> "some"]

\* metadata.packages.iter().find(|p| p.name == krate || format!("lib{}", p.name) == krate):
\* the index of the first match, 0 when there is none.
find(md, name) ==
    LET hits == {i \in DOMAIN md : md[i].name = name \/ S_lib \o md[i].name = name}
    IN IF hits = {} THEN 0 ELSE CHOOSE i \in hits : \A j \in hits : i <= j

\* The LocalCrate built of a package.
this_crate(package) ==
    [name |-> package.name,
     root_path |-> parent(package.manifest_path),
     lib_path |-> package.targets[1].src_path,
     toml_path |-> package.manifest_path]

\* .filter(|dep| dep.source.is_none())
is_local(dep) == dep.source = None

RECURSIVE get_local_dependencies_of_crate(_, _)

\* A mutant of get_local_dependencies_of_crate: the dependencies of the
\* dependencies are not followed.
get_local_dependencies_of_crate_direct(md, name) ==
    LET i == find(md, name)
    IN IF i = 0 THEN Panic
       ELSE LET local == SelectSeq(md[i].dependencies, is_local)
            IN IF \E j \in DOMAIN local : find(md, local[j].name) = 0 THEN Panic
               ELSE Ok({this_crate(md[i])}
                       \cup {this_crate(md[find(md, local[j].name)]) : j \in DOMAIN local})

\* A mutant of get_local_dependencies_of_crate: once(this_crate) is left out.
get_local_dependencies_of_crate_without_self(md, name) ==
    LET i == find(md, name)
    IN IF i = 0 THEN Panic
       ELSE LET local == SelectSeq(md[i].dependencies, is_local)
                local_dependencies ==
                    {get_local_dependencies_of_crate(md, local[j].name) : j \in DOMAIN local}
            IN IF Panic \in local_dependencies THEN Panic
               ELSE Ok(UNION {r.v : r \in local_dependencies})

\* fn get_local_dependencies_of_crate: Panic when a name is not found (expect).
get_local_dependencies_of_crate(md, name) ==
    LET i == find(md, name)
    IN IF i = 0 THEN Panic
       ELSE LET package == md[i]
                local == SelectSeq(package.dependencies, is_local)
                local_dependencies ==
                    {get_local_dependencies_of_crate(md, local[j].name) : j \in DOMAIN local}
            IN IF Panic \in local_dependencies THEN Panic
               ELSE Ok({this_crate(package)} \cup UNION {r.v : r \in local_dependencies})

\* A mutant of find_crates_to_copy: a name that is not found is skipped.
find_crates_to_copy_skipping(md, crates) ==
    LET each == {get_local_dependencies_of_crate(md, crates[j]) : j \in DOMAIN crates}
    IN Ok(UNION {r.v : r \in each})

\* fn find_crates_to_copy: the union over the requested names, collected in a BTreeSet.
find_crates_to_copy(md, crates) ==
    LET each == {get_local_dependencies_of_crate(md, crates[j]) : j \in DOMAIN crates}
    IN IF Panic \in each THEN Panic ELSE Ok(UNION {r.v : r \in each})

----------------------------------------------------------------------------
(* The package graphs of the checks *)

\* The packages of md that package i depends on by a dependency without a source.
LocalEdges(md, i) ==
    {find(md, d.name) : d \in {e \in Range(md[i].dependencies) : e.source = None}} \ {0}

RECURSIVE ReachableFrom(_, _)
ReachableFrom(md, seen) ==
    LET more == seen \cup UNION {LocalEdges(md, i) : i \in seen}
    IN IF more = seen THEN seen ELSE ReachableFrom(md, more)

\* No package reaches itself (the precondition of the recursion).
Acyclic(md) ==
    \A i \in DOMAIN md :
        LocalEdges(md, i) = {} \/ i \notin ReachableFrom(md, LocalEdges(md, i))

\* The longest list of dependencies of a package, and of requested names.
MaxDeps == 2
MaxCrates == 2

\* The names of the packages of a workspace: a and liba meet in the "lib" form.
PackageNames == {S_a, S_lib \o S_a, S_b}

\* The dependencies a package may declare: local ones, and one of the registry
\* whose name is also the name of a package of the workspace.
DependencyPool ==
    << [name |-> S_a, source |-> None],
       [name |-> S_lib \o S_a, source |-> None],
       [name |-> S_b, source |-> None],
       [name |-> S_b, source |-> Registry] >>

\* The names a run may be asked for; c is no package of any workspace.
RequestPool == {S_a, S_lib \o S_a, S_lib \o S_b, S_c}

\* The directory of the i-th package and its library file below it: the first and
\* the third directory have the same final component, the second has its library
\* in a subdirectory.
Layout ==
    << [root |-> <<S_src, S_lib \o S_b>>, lib |-> <<S_lib_rs>>],
       [root |-> <<S_src, S_lib \o S_a>>, lib |-> <<S_src, S_lib_rs>>],
       [root |-> <<S_x, S_lib \o S_b>>, lib |-> <<S_lib_rs>>] >>

Injective(seq) == \A i, j \in DOMAIN seq : seq[i] = seq[j] => i = j

SeqsUpTo(set, n) == UNION {[1..k -> set] : k \in 0..n}

\* The lists of dependencies: up to MaxDeps of the pool, in the pool's order.
DependencyLists(pool) ==
    {[i \in DOMAIN s |-> pool[s[i]]] :
        s \in {t \in SeqsUpTo(DOMAIN pool, MaxDeps) :
                  \A i, j \in DOMAIN t : i < j => t[i] < t[j]}}

\* cargo_metadata's Package, of the fields the program reads.
Package(name, layout, dependencies) ==
    [name |-> name,
     manifest_path |-> join(layout.root, S_Cargo_toml),
     targets |-> <<[src_path |-> layout.root \o layout.lib]>>,
     dependencies |-> dependencies]

----------------------------------------------------------------------------
(* The closure on its own: SpecClosure *)

Unused == <<>>

InitClosure ==
    /\ pc = "start"
    /\ \E names \in {n \in SeqsUpTo(PackageNames, Len(Layout)) : n # <<>> /\ Injective(n)} :
       \E deps \in [DOMAIN names -> DependencyLists(DependencyPool)] :
          metadata = [i \in DOMAIN names |-> Package(names[i], Layout[i], deps[i])]
    /\ Acyclic(metadata)
    /\ \E crates \in SeqsUpTo(RequestPool, MaxCrates) \ {<<>>} :
          opt = [crates |-> crates, force |-> FALSE]
    /\ source = Unused
    /\ crates_to_copy = Unused
    /\ krate = Unused
    /\ cargo_toml_content = Unused
    /\ disk = Unused
    /\ io_log = Unused
    /\ arg = Unused
    /\ ret = Unused

\* main, line 48: the closure is collected before anything else happens.
Resolve ==
    /\ pc = "start"
    /\ LET found == find_crates_to_copy(metadata, opt.crates)
       IN IF found = Panic
          THEN pc' = "panicked" /\ crates_to_copy' = <<>>
          ELSE pc' = "resolved" /\ crates_to_copy' = BTreeSetIter(found.v)
    /\ UNCHANGED <<metadata, opt, source, krate, cargo_toml_content, disk, io_log, arg, ret>>

NextClosure == Resolve

SpecClosure == InitClosure /\ [][NextClosure]_vars

\* The packages the requested names resolve to.
RequestedRoots == {find(metadata, opt.crates[j]) : j \in DOMAIN opt.crates}

\* The packages of the workspace with a chain of local dependencies from a root.
LocallyReachable == ReachableFrom(metadata, RequestedRoots)

Members == Range(crates_to_copy)

\* C1: when every name resolves, the closure is exactly the set of the packages
\* reachable from the requested packages through zero or more dependencies
\* without a source; a package reached through a registry dependency only is
\* no member.
C1_ClosureIsLocalReachability ==
    pc = "resolved" =>
        Members = {this_crate(metadata[i]) : i \in LocallyReachable}

\* A run whose closure has a member that was not requested, and leaves out a
\* package that a member depends on through the registry.
C1_Witness ==
    /\ pc = "resolved"
    /\ \E i \in LocallyReachable : i \notin RequestedRoots
    /\ \E i \in LocallyReachable : \E d \in Range(metadata[i].dependencies) :
          /\ d.source = Registry
          /\ find(metadata, d.name) # 0
          /\ this_crate(metadata[find(metadata, d.name)]) \notin Members

\* C5 as stated: every requested name that resolves is the name of a member.
C5_RequestedNameIsMemberName ==
    pc = "resolved" =>
        \A j \in DOMAIN opt.crates : \E m \in Members : m.name = opt.crates[j]

\* C5, amended: every requested name that resolves is the name of a member or
\* "lib" followed by the name of a member, and that member is the package the
\* graph query finds for the name.
C5_RequestedPackageIsMember ==
    pc = "resolved" =>
        \A j \in DOMAIN opt.crates : \E m \in Members :
            /\ m.name = opt.crates[j] \/ S_lib \o m.name = opt.crates[j]
            /\ \E i \in DOMAIN metadata :
                  /\ m = this_crate(metadata[i])
                  /\ \A k \in 1..(i - 1) :
                        /\ metadata[k].name # opt.crates[j]
                        /\ S_lib \o metadata[k].name # opt.crates[j]

\* A run asked for a package by its "lib" form and for another by its name.
C5_Witness ==
    /\ pc = "resolved"
    /\ \E j \in DOMAIN opt.crates : \E m \in Members :
          S_lib \o m.name = opt.crates[j] /\ \A n \in Members : n.name # opt.crates[j]
    /\ \E j \in DOMAIN opt.crates : \E m \in Members : m.name = opt.crates[j]

\* The identity key of a LocalCrate, (name, root_path), in its order.
KeyLess(x, y) ==
    \/ StrLess(x.name, y.name)
    \/ x.name = y.name /\ PathLess(x.root_path, y.root_path)

\* C6: the closure is iterated in strictly ascending order of (name, root_path),
\* so no two members share the key, and the sequence is the same for every
\* order and repetition of the requested names.
C6_StrictOrderAndDeterminism ==
    pc = "resolved" =>
        /\ \A i, j \in DOMAIN crates_to_copy :
              i < j => KeyLess(crates_to_copy[i], crates_to_copy[j])
        /\ \A other \in SeqsUpTo(Range(opt.crates), MaxCrates + 1) :
              Range(other) = Range(opt.crates) =>
                  LET again == find_crates_to_copy(metadata, other)
                  IN again # Panic /\ BTreeSetIter(again.v) = crates_to_copy

\* A closure of three members, asked for by two names, whose order by name is
\* not the order of the root directories.
C6_Witness ==
    /\ pc = "resolved"
    /\ Len(crates_to_copy) = 3
    /\ Cardinality(Range(opt.crates)) = 2
    /\ \E i, j \in DOMAIN crates_to_copy :
          i < j /\ PathLess(crates_to_copy[j].root_path, crates_to_copy[i].root_path)

----------------------------------------------------------------------------
(* add_rustfmt_prefix on its own: SpecPrefix *)

\* The most pieces a name is made of.
MaxPieces == 3

NamePieces == {S_rustc_, S_rustfmt_, S_rustc, S_a, S_session}

RECURSIVE Concat(_)
Concat(pieces) == IF pieces = <<>> THEN <<>> ELSE Head(pieces) \o Concat(Tail(pieces))

NameInputs == {Concat(pieces) : pieces \in SeqsUpTo(NamePieces, MaxPieces)}

InitPrefix ==
    /\ pc = "start"
    /\ arg \in NameInputs
    /\ ret = Unused
    /\ metadata = Unused
    /\ opt = Unused
    /\ source = Unused
    /\ crates_to_copy = Unused
    /\ krate = Unused
    /\ cargo_toml_content = Unused
    /\ disk = Unused
    /\ io_log = Unused

\* A call of add_rustfmt_prefix.
AddRustfmtPrefix ==
    /\ pc = "start"
    /\ ret' = add_rustfmt_prefix(arg)
    /\ pc' = "done"
    /\ UNCHANGED <<metadata, opt, source, crates_to_copy, krate, cargo_toml_content,
                   disk, io_log, arg>>

NextPrefix == AddRustfmtPrefix

SpecPrefix == InitPrefix /\ [][NextPrefix]_vars

\* The bytes "rustc_" and "rustfmt_", written out for the statement.
Token == <<114, 117, 115, 116, 99, 95>>
Target == <<114, 117, 115, 116, 102, 109, 116, 95>>

\* C7: a name that begins with "rustc_" is mapped to "rustfmt_" followed by the
\* rest of the name as it was (later occurrences of "rustc_" included), which is
\* two bytes longer than the name and not the name with "rustfmt_" before it;
\* every other name is mapped to "rustfmt_" followed by the name.
C7_PrefixTransform ==
    pc = "done" =>
        IF Len(arg) >= Len(Token) /\ \A i \in DOMAIN Token : arg[i] = Token[i]
        THEN /\ ret = Target \o SubSeq(arg, Len(Token) + 1, Len(arg))
             /\ Len(ret) = Len(arg) + 2
             /\ ret # Target \o arg
        ELSE ret = Target \o arg

\* A name that begins with "rustc_" and holds a second "rustc_" has been mapped.
C7_Witness ==
    /\ pc = "done"
    /\ Len(arg) >= Len(Token)
    /\ SubSeq(arg, 1, Len(Token)) = Token
    /\ \E i \in 2..(Len(arg) + 1 - Len(Token)) : SubSeq(arg, i, i + Len(Token) - 1) = Token
    /\ \E i \in 2..(Len(ret) + 1 - Len(Token)) : SubSeq(ret, i, i + Len(Token) - 1) = Token

----------------------------------------------------------------------------
(* The manifest, as the toml::Value that rename_crate parses it to *)

Str(s) == [t |-> "string", v |-> s]
Table(f) == [t |-> "table", v |-> f]

\* Value::as_table, Value::as_str
IsTable(value) == value.t = "table"
IsStr(value) == value.t = "string"

\* Map::insert: the key is added, or its value replaced.
Insert(f, key, value) ==
    [k \in DOMAIN f \cup {key} |-> IF k = key THEN value ELSE f[k]]

\* rename_crate, lines 197-204: the new value of a dependency with a path.
RenameDependency(dep_name, dep_table) ==
    LET new_package_name ==
            add_rustfmt_prefix(
                IF "package" \in DOMAIN dep_table /\ IsStr(dep_table["package"])
                THEN dep_table["package"].v
                ELSE dep_name)
    IN Insert(dep_table, "package", Str(new_package_name))

\* rename_crate, lines 194-207: the loop over the dependencies table.
RenameDependencies(dependencies) ==
    [dep_name \in DOMAIN dependencies |->
        LET dep_value == dependencies[dep_name]
        IN IF IsTable(dep_value) /\ "path" \in DOMAIN dep_value.v
           THEN Table(RenameDependency(dep_name, dep_value.v))
           ELSE dep_value]

\* rename_crate, lines 170-209, on the parsed value: Panic where the code
\* expects or unwraps what is not there.
rename_crate_value(cargo_toml_table) ==
    IF \/ "package" \notin DOMAIN cargo_toml_table
       \/ ~IsTable(cargo_toml_table["package"])
       \/ "name" \notin DOMAIN cargo_toml_table["package"].v
       \/ ~IsStr(cargo_toml_table["package"].v["name"])
    THEN Panic
    ELSE LET package == cargo_toml_table["package"].v
             new_package_name == add_rustfmt_prefix(package["name"].v)
             renamed ==
                 Insert(cargo_toml_table, "package",
                        Table(Insert(package, "name", Str(new_package_name))))
         IN IF "dependencies" \in DOMAIN renamed /\ IsTable(renamed["dependencies"])
            THEN Ok(Insert(renamed, "dependencies",
                           Table(RenameDependencies(renamed["dependencies"].v))))
            ELSE Ok(renamed)

----------------------------------------------------------------------------
(* rename_crate on its own: SpecRename *)

S_version == Str(<<49>>)
S_dotdot == Str(<<46, 46>>)

Subfunctions(keys, values) == UNION {[d -> values] : d \in SUBSET keys}

\* What a manifest may say of one dependency.
DependencyValues ==
    { S_version,
      Table([version |-> S_version]),
      Table([path |-> S_dotdot]),
      Table([path |-> S_dotdot, package |-> Str(S_rustc_ \o S_x)]),
      Table([path |-> S_dotdot, package |-> Str(S_x)]),
      Table([version |-> S_version, package |-> Str(S_x)]) }

PackageTables ==
    { [name |-> Str(S_rustc_ \o S_a), version |-> S_version],
      [name |-> Str(S_a), version |-> S_version],
      [version |-> S_version] }

\* The manifests: with or without [package], [dependencies] and [dev-dependencies].
Manifests ==
    LET packages == Subfunctions({"package"}, {Table(p) : p \in PackageTables})
        dependencies ==
            Subfunctions({"dependencies"},
                {Table(d) : d \in Subfunctions({S_rustc_ \o S_a, S_b}, DependencyValues)})
        dev_dependencies ==
            Subfunctions({"dev-dependencies"},
                {Table(d) : d \in [{S_c} -> {Table([path |-> S_dotdot]),
                                              Table([version |-> S_version])}]})
    IN {[k \in DOMAIN p \cup DOMAIN d \cup DOMAIN v |->
            IF k \in DOMAIN p THEN p[k] ELSE IF k \in DOMAIN d THEN d[k] ELSE v[k]] :
        p \in packages, d \in dependencies, v \in dev_dependencies}

InitRename ==
    /\ pc = "start"
    /\ arg \in Manifests
    /\ ret = Unused
    /\ metadata = Unused
    /\ opt = Unused
    /\ source = Unused
    /\ crates_to_copy = Unused
    /\ krate = Unused
    /\ cargo_toml_content = Unused
    /\ disk = Unused
    /\ io_log = Unused

\* rename_crate on a parsed manifest.
RenameValue ==
    /\ pc = "start"
    /\ ret' = rename_crate_value(arg)
    /\ pc' = IF ret' = Panic THEN "panicked" ELSE "done"
    /\ UNCHANGED <<metadata, opt, source, crates_to_copy, krate, cargo_toml_content,
                   disk, io_log, arg>>

NextRename == RenameValue

SpecRename == InitRename /\ [][NextRename]_vars

\* The package a dependency with a path is to name after the rewrite.
ExpectedPackage(dep_name, dep_table) ==
    IF "package" \in DOMAIN dep_table
    THEN add_rustfmt_prefix(dep_table["package"].v)
    ELSE add_rustfmt_prefix(dep_name)

\* The dependencies of the table `section` of the manifest have been rewritten.
SectionRewritten(section) ==
    (section \in DOMAIN arg /\ IsTable(arg[section])) =>
        /\ section \in DOMAIN ret.v
        /\ \A dep_name \in DOMAIN arg[section].v :
              LET before == arg[section].v[dep_name]
                  after == ret.v[section].v[dep_name]
              IN (IsTable(before) /\ "path" \in DOMAIN before.v) =>
                    /\ IsTable(after)
                    /\ "package" \in DOMAIN after.v
                    /\ after.v["package"] = Str(ExpectedPackage(dep_name, before.v))

\* C4 as stated: after rename_crate, every dependency of the manifest that has
\* a path names as its package the transform of its former package, or else of
\* its key, in whichever table of dependencies it is declared.
C4_EveryPathDependencyRewritten ==
    pc = "done" =>
        \A section \in {"dependencies", "dev-dependencies"} : SectionRewritten(section)

\* What holds: the dependencies of the [dependencies] table are so rewritten.
C4_DependenciesTableRewritten ==
    pc = "done" => SectionRewritten("dependencies")

----------------------------------------------------------------------------
(* The file system *)

S_out == <<111, 117, 116>>
S_old == <<111, 108, 100>>
S_data_structures ==
    <<100, 97, 116, 97, 95, 115, 116, 114, 117, 99, 116, 117, 114, 101, 115>>

\* const CRATES_WHICH_REQUIRES_RUSTC_PRIVATE_FEATURES
CRATES_WHICH_REQUIRES_RUSTC_PRIVATE_FEATURES ==
    {S_rustc_ \o S_data_structures, S_rustc_ \o S_session}

\* "#![feature(rustc_private)]", the line add_rustc_private_feature prepends.
S_feature ==
    <<35, 33, 91, 102, 101, 97, 116, 117, 114, 101, 40, 114, 117, 115, 116, 99, 95,
      112, 114, 105, 118, 97, 116, 101, 41, 93>>

\* "[workspace]", "members = [" and "]", the lines around the members.
S_workspace == <<91, 119, 111, 114, 107, 115, 112, 97, 99, 101, 93>>
S_members == <<109, 101, 109, 98, 101, 114, 115, 32, 61, 32, 91>>
S_close == <<93>>

\* format!("  \"{}\",\n", name), as a line.
MemberLine(name) == <<32, 32, 34>> \o name \o <<34, 44>>

\* What is at a path: a directory, a file of lines of text, or a manifest, which
\* is held as the toml::Value it parses to.
Dir == [kind |-> "dir", text |-> <<>>]
File(lines) == [kind |-> "file", text |-> lines]
Manifest(value) == [kind |-> "toml", text |-> value]

EmptyDisk == <<>>

IsPrefix(prefix, path) ==
    Len(prefix) <= Len(path) /\ SubSeq(path, 1, Len(prefix)) = prefix

\* The file or directory at path is created or replaced.
Put(fs, path, content) ==
    [p \in DOMAIN fs \cup {path} |-> IF p = path THEN content ELSE fs[p]]

\* fs::create_dir_all: the directory and every missing ancestor.
create_dir_all(fs, path) ==
    [p \in DOMAIN fs \cup {SubSeq(path, 1, n) : n \in 1..Len(path)} |->
        IF p \in DOMAIN fs THEN fs[p] ELSE Dir]

\* The entries WalkDir yields under from: from itself and all below it.
WalkDir(from) == {p \in DOMAIN source : IsPrefix(from, p)}

\* The entries a walk may have yielded when it stops early: WalkDir yields a
\* directory before what is in it, in no other fixed order.
PartialWalks(from) ==
    {done \in SUBSET WalkDir(from) :
        /\ done # WalkDir(from)
        /\ \A p \in done : p # from => parent(p) \in done}

\* fn copy_dir_all, for the entries of the walk in `entries`.
RECURSIVE copy_entries(_, _, _, _)
copy_entries(fs, from, to, entries) ==
    IF entries = {} THEN fs
    ELSE LET entry == CHOOSE p \in entries : \A q \in entries : Len(p) <= Len(q)
             target_path == to \o strip_prefix(entry, from)
             copied == IF source[entry].kind = "dir"
                       THEN create_dir_all(fs, target_path)
                       ELSE Put(fs, target_path, source[entry])
         IN copy_entries(copied, from, to, entries \ {entry})

\* A call main makes on the file system, and how it ended.
Call(name, index, result, read, wrote) ==
    [call |-> name, krate |-> index, result |-> result, read |-> read, wrote |-> wrote]

NoPath == <<>>

----------------------------------------------------------------------------
(* The run of main: Spec *)

\* The source tree: for every package its directory, its manifest and its
\* library file, in a subdirectory where the layout has one.
ManifestOf(package) ==
    LET deps == package.dependencies
        names == {deps[j].name : j \in DOMAIN deps}
        table == [n \in names |->
                    IF \E j \in DOMAIN deps : deps[j].name = n /\ deps[j].source = None
                    THEN Table([path |-> S_dotdot])
                    ELSE S_version]
        head == [package |-> Table([name |-> Str(package.name), version |-> S_version])]
    IN IF names = {} THEN head ELSE Insert(head, "dependencies", Table(table))

LibraryText(package) == <<package.name \o <<59>>>>

SourceTree(md) ==
    LET root(i) == parent(md[i].manifest_path)
        lib(i) == md[i].targets[1].src_path
        dirs == UNION {{SubSeq(lib(i), 1, n) : n \in Len(root(i))..(Len(lib(i)) - 1)} :
                       i \in DOMAIN md}
        paths == dirs \cup UNION {{md[i].manifest_path, lib(i)} : i \in DOMAIN md}
    IN [p \in paths |->
          IF p \in dirs THEN Dir
          ELSE LET i == CHOOSE j \in DOMAIN md : p \in {md[j].manifest_path, lib(j)}
               IN IF p = md[i].manifest_path
                  THEN Manifest(ManifestOf(md[i]))
                  ELSE File(LibraryText(md[i]))]

\* The workspaces of the runs: rustc_session is a crate of the list above.
RunPackageNames == {S_rustc_ \o S_session, S_a, S_b}

RunDependencyLists ==
    { <<>>,
      <<[name |-> S_a, source |-> None]>>,
      <<[name |-> S_b, source |-> None], [name |-> S_c, source |-> Registry]>>,
      <<[name |-> S_c, source |-> None]>> }

RunRequests ==
    { <<S_rustc_ \o S_session>>,
      <<S_a>>,
      <<S_lib \o S_b, S_rustc_ \o S_session>>,
      <<S_c>>,
      <<S_a, S_c>> }

\* The output directory before the run: missing, or left by an earlier run.
OldDisk == Put(create_dir_all(EmptyDisk, <<S_out>>), <<S_out, S_old>>, File(<<S_old>>))

Init ==
    /\ pc = "start"
    /\ \E names \in {n \in SeqsUpTo(RunPackageNames, Len(Layout)) : n # <<>> /\ Injective(n)} :
       \E deps \in [DOMAIN names -> RunDependencyLists] :
          metadata = [i \in DOMAIN names |-> Package(names[i], Layout[i], deps[i])]
    /\ Acyclic(metadata)
    /\ \E crates \in RunRequests : \E force \in BOOLEAN :
          opt = [crates |-> crates, force |-> force, out |-> <<S_out>>]
    /\ source = SourceTree(metadata)
    /\ disk \in {EmptyDisk, OldDisk}
    /\ crates_to_copy = <<>>
    /\ krate = 0
    /\ cargo_toml_content = <<>>
    /\ io_log = <<>>
    /\ arg = Unused
    /\ ret = Unused

\* main, lines 51-55: with force the output directory is removed; then the
\* content of the workspace's Cargo.toml is begun.
RemoveOut ==
    /\ pc = "resolved"
    /\ IF opt.force
       THEN IF opt.out \notin DOMAIN disk
            THEN /\ io_log' = Append(io_log, Call("remove_dir_all", 0, "NotFound", NoPath, NoPath))
                 /\ pc' = "failed"
                 /\ UNCHANGED <<disk, cargo_toml_content>>
            ELSE \/ /\ disk' = EmptyDisk
                    /\ io_log' = Append(io_log, Call("remove_dir_all", 0, "ok", NoPath, opt.out))
                    /\ pc' = "loop"
                    /\ cargo_toml_content' = <<S_workspace, S_members>>
                 \/ /\ io_log' = Append(io_log, Call("remove_dir_all", 0, "error", NoPath, NoPath))
                    /\ pc' = "failed"
                    /\ UNCHANGED <<disk, cargo_toml_content>>
       ELSE /\ pc' = "loop"
            /\ cargo_toml_content' = <<S_workspace, S_members>>
            /\ UNCHANGED <<disk, io_log>>
    /\ UNCHANGED <<metadata, opt, source, crates_to_copy, krate, arg, ret>>

\* The destination of a crate: opt.out.join(krate.root_path.file_name()).
To(k) == join(opt.out, file_name(k.root_path))

\* A mutant of CopyDirAll: the error of copy_dir_all is dropped and the run goes on.
CopyDirAll_error_dropped ==
    /\ pc = "loop"
    /\ krate < Len(crates_to_copy)
    /\ krate' = krate + 1
    /\ LET k == crates_to_copy[krate + 1]
       IN \E done \in SUBSET WalkDir(k.root_path) :
             /\ \A p \in done : p # k.root_path => parent(p) \in done
             /\ disk' = copy_entries(disk, k.root_path, To(k), done)
             /\ io_log' = Append(io_log,
                    Call("copy_dir_all", krate + 1,
                         IF done = WalkDir(k.root_path) THEN "ok" ELSE "error",
                         k.root_path, To(k)))
             /\ pc' = "copied"
    /\ UNCHANGED <<metadata, opt, source, crates_to_copy, cargo_toml_content, arg, ret>>

\* main, lines 56-63: the next crate of the closure is taken and its directory
\* copied; an error of the walk or of a copy ends the run with a part copied.
CopyDirAll ==
    /\ pc = "loop"
    /\ krate < Len(crates_to_copy)
    /\ krate' = krate + 1
    /\ LET k == crates_to_copy[krate + 1]
       IN \/ /\ disk' = copy_entries(disk, k.root_path, To(k), WalkDir(k.root_path))
             /\ io_log' = Append(io_log, Call("copy_dir_all", krate + 1, "ok", k.root_path, To(k)))
             /\ pc' = "copied"
          \/ \E done \in PartialWalks(k.root_path) :
                /\ disk' = copy_entries(disk, k.root_path, To(k), done)
                /\ io_log' = Append(io_log,
                                    Call("copy_dir_all", krate + 1, "error", k.root_path, To(k)))
                /\ pc' = "failed"
    /\ UNCHANGED <<metadata, opt, source, crates_to_copy, cargo_toml_content, arg, ret>>

\* main, lines 65-67, and fn add_rustc_private_feature: for a crate of the list,
\* the library file is read and the line and what was read are written to the
\* file of the same name in the destination directory.
AddRustcPrivateFeature ==
    /\ pc = "copied"
    /\ LET k == crates_to_copy[krate]
           to_path == join(To(k), file_name(k.lib_path))
           source_content == source[k.lib_path].text
           target_content == <<S_feature>> \o source_content
       IN IF k.name \in CRATES_WHICH_REQUIRES_RUSTC_PRIVATE_FEATURES
          THEN \/ /\ disk' = Put(disk, to_path, File(target_content))
                  /\ io_log' = Append(io_log,
                        Call("add_rustc_private_feature", krate, "ok", k.lib_path, to_path))
                  /\ pc' = "injected"
               \/ /\ disk' \in {disk, Put(disk, to_path, File(<<>>))}
                  /\ io_log' = Append(io_log,
                        Call("add_rustc_private_feature", krate, "error", k.lib_path, to_path))
                  /\ pc' = "failed"
          ELSE /\ pc' = "injected"
               /\ UNCHANGED <<disk, io_log>>
    /\ UNCHANGED <<metadata, opt, source, crates_to_copy, krate, cargo_toml_content, arg, ret>>

\* main, lines 69-74, and fn rename_crate: the manifest of the crate is read and
\* parsed, renamed, and written to Cargo.toml in the destination directory; then
\* the line of the member is pushed.
RenameCrate ==
    /\ pc = "injected"
    /\ LET k == crates_to_copy[krate]
           to_path == join(To(k), S_Cargo_toml)
           raw_value == rename_crate_value(source[k.toml_path].text)
       IN \/ /\ raw_value # Panic
             /\ disk' = Put(disk, to_path, Manifest(raw_value.v))
             /\ io_log' = Append(io_log, Call("rename_crate", krate, "ok", k.toml_path, to_path))
             /\ cargo_toml_content' =
                    Append(cargo_toml_content, MemberLine(file_name(k.root_path)))
             /\ pc' = "loop"
          \/ /\ raw_value = Panic
             /\ pc' = "panicked"
             /\ UNCHANGED <<disk, io_log, cargo_toml_content>>
          \/ /\ disk' \in {disk, Put(disk, to_path, File(<<>>))}
             /\ io_log' = Append(io_log, Call("rename_crate", krate, "error", k.toml_path, to_path))
             /\ pc' = "failed"
             /\ UNCHANGED cargo_toml_content
    /\ UNCHANGED <<metadata, opt, source, crates_to_copy, krate, arg, ret>>

\* main, lines 76-82: after the last crate the content is closed and written to
\* Cargo.toml in the output directory.
WriteCargoToml ==
    /\ pc = "loop"
    /\ krate = Len(crates_to_copy)
    /\ cargo_toml_content' = Append(cargo_toml_content, S_close)
    /\ LET cargo_toml_file_path == join(opt.out, S_Cargo_toml)
       IN IF opt.out \notin DOMAIN disk
          THEN /\ io_log' = Append(io_log,
                      Call("write Cargo.toml", 0, "NotFound", NoPath, cargo_toml_file_path))
               /\ pc' = "failed"
               /\ UNCHANGED disk
          ELSE \/ /\ disk' = Put(disk, cargo_toml_file_path, File(cargo_toml_content'))
                  /\ io_log' = Append(io_log,
                         Call("write Cargo.toml", 0, "ok", NoPath, cargo_toml_file_path))
                  /\ pc' = "done"
               \/ /\ disk' \in {disk, Put(disk, cargo_toml_file_path, File(<<>>))}
                  /\ io_log' = Append(io_log,
                         Call("write Cargo.toml", 0, "error", NoPath, cargo_toml_file_path))
                  /\ pc' = "failed"
    /\ UNCHANGED <<metadata, opt, source, crates_to_copy, krate, arg, ret>>

Next ==
    \/ Resolve
    \/ RemoveOut
    \/ CopyDirAll
    \/ AddRustcPrivateFeature
    \/ RenameCrate
    \/ WriteCargoToml

Spec == Init /\ [][Next]_vars

----------------------------------------------------------------------------
(* The statements about the run *)

\* The names between the quotes of the member lines of a workspace's Cargo.toml.
MemberNames(lines) ==
    [i \in 1..(Len(lines) - 3) |-> SubSeq(lines[i + 2], 4, Len(lines[i + 2]) - 2)]

\* The directory names of the closure, in its order.
DirectoryNames == [i \in DOMAIN crates_to_copy |-> file_name(crates_to_copy[i].root_path)]

WorkspaceCargoToml == disk[join(opt.out, S_Cargo_toml)]

\* C2 as stated: after a successful run the members of the workspace's
\* Cargo.toml are the directory names of the closure in the closure's order,
\* each name listed exactly once.
C2_MembersAreDirectoryNamesOnce ==
    pc = "done" =>
        /\ WorkspaceCargoToml.kind = "file"
        /\ MemberNames(WorkspaceCargoToml.text) = DirectoryNames
        /\ Injective(MemberNames(WorkspaceCargoToml.text))

\* What holds of the members: one line for each crate of the closure, in order.
C2_MembersFollowClosure ==
    pc = "done" =>
        /\ WorkspaceCargoToml.kind = "file"
        /\ WorkspaceCargoToml.text[1] = S_workspace
        /\ WorkspaceCargoToml.text[2] = S_members
        /\ WorkspaceCargoToml.text[Len(WorkspaceCargoToml.text)] = S_close
        /\ MemberNames(WorkspaceCargoToml.text) = DirectoryNames

\* C3 as stated: after a successful run, for every crate of the closure that is
\* in the list, the copy of its library file (at the path it has below the
\* crate's directory) is the feature line followed by the content of the
\* original, and add_rustc_private_feature has read that content from the
\* destination, not from the source tree.
C3_FeatureLineOnTheCopy ==
    pc = "done" =>
        \A i \in DOMAIN crates_to_copy :
            LET k == crates_to_copy[i]
                copy == To(k) \o strip_prefix(k.lib_path, k.root_path)
            IN k.name \in CRATES_WHICH_REQUIRES_RUSTC_PRIVATE_FEATURES =>
                  /\ copy \in DOMAIN disk
                  /\ disk[copy].kind = "file"
                  /\ disk[copy].text = <<S_feature>> \o source[k.lib_path].text
                  /\ \A j \in DOMAIN io_log :
                        (io_log[j].call = "add_rustc_private_feature" /\ io_log[j].krate = i)
                            => IsPrefix(opt.out, io_log[j].read)

\* The first half of C3 alone, which fails where the library file is in a
\* subdirectory of the crate: the line is written to a file of the library's
\* name directly in the destination directory.
C3_FeatureLineAtRelativePath ==
    pc = "done" =>
        \A i \in DOMAIN crates_to_copy :
            LET k == crates_to_copy[i]
                copy == To(k) \o strip_prefix(k.lib_path, k.root_path)
            IN k.name \in CRATES_WHICH_REQUIRES_RUSTC_PRIVATE_FEATURES =>
                  /\ copy \in DOMAIN disk
                  /\ disk[copy].text = <<S_feature>> \o source[k.lib_path].text

\* A name that no package has: a requested one, or one of a local dependency of
\* a package that the requested names reach.
Unresolvable ==
    \/ 0 \in RequestedRoots
    \/ \E i \in ReachableFrom(metadata, RequestedRoots \ {0}) :
          \E d \in Range(metadata[i].dependencies) :
              d.source = None /\ find(metadata, d.name) = 0

\* C8: when a requested name, or the name of a local dependency that the
\* requested names reach, has no package, the run makes no call on the file
\* system: the output directory is not removed, even with force, and nothing is
\* created or written; the run is at its start or has panicked.
C8_UnresolvedNameTouchesNothing ==
    /\ [](Unresolvable => (io_log = <<>> /\ pc \in {"start", "panicked"}))
    /\ [][Unresolvable => disk' = disk]_vars

\* A run with force and an old output directory has panicked on the name of a
\* local dependency, all the requested names having a package.
C8_Witness ==
    /\ pc = "panicked"
    /\ opt.force
    /\ disk = OldDisk
    /\ 0 \notin RequestedRoots

\* C9 as stated: with force, the old output directory is gone before a crate
\* is copied, and the run is not ended by the output directory being missing.
C9_ForceRemovesOrProceeds ==
    opt.force =>
        /\ (\E i \in DOMAIN io_log : io_log[i].call = "copy_dir_all")
              => <<S_out, S_old>> \notin DOMAIN disk
        /\ \A i \in DOMAIN io_log :
              io_log[i].call = "remove_dir_all" => io_log[i].result # "NotFound"

\* The calls of the log that ended well, for the crate at index m, before call i.
Did(name, m, i) ==
    {j \in 1..(i - 1) :
        io_log[j].call = name /\ io_log[j].krate = m /\ io_log[j].result = "ok"}

\* C10: Cargo.toml of the workspace is written at most once, and only when
\* every crate of the closure has been copied, then given the feature line if
\* it is in the list, and had its manifest rewritten; the feature line and the
\* manifest of a crate come after its copy; a call that fails is the last call
\* of the run.
C10_OrderOfTheRun ==
    pc \notin {"start", "resolved", "panicked"} =>
        /\ Cardinality({i \in DOMAIN io_log : io_log[i].call = "write Cargo.toml"}) <= 1
        /\ \A i \in DOMAIN io_log :
              /\ io_log[i].call = "write Cargo.toml" =>
                    \A m \in DOMAIN crates_to_copy :
                        /\ Did("copy_dir_all", m, i) # {}
                        /\ Did("rename_crate", m, i) # {}
                        /\ crates_to_copy[m].name \in CRATES_WHICH_REQUIRES_RUSTC_PRIVATE_FEATURES
                              => Did("add_rustc_private_feature", m, i) # {}
              /\ io_log[i].call \in {"add_rustc_private_feature", "rename_crate"} =>
                    Did("copy_dir_all", io_log[i].krate, i) # {}
              /\ io_log[i].result # "ok" => i = Len(io_log) /\ pc = "failed"

\* A run of two crates or more, one of them in the list, has written Cargo.toml.
C10_Witness ==
    /\ pc = "done"
    /\ Len(crates_to_copy) >= 2
    /\ \E m \in DOMAIN crates_to_copy :
          crates_to_copy[m].name \in CRATES_WHICH_REQUIRES_RUSTC_PRIVATE_FEATURES
    /\ io_log[Len(io_log)].call = "write Cargo.toml"

====
